---- MODULE Spec2Model ----
(***************************************************************************)
(* A state-machine model of em-taskflow-ai's retrieval pipeline:           *)
(*   - the standalone reranker service (python-services/reranker/app.py),  *)
(*   - the backend's model holder MLServices (services/ml_models.py),      *)
(*   - document ingestion (services/rag.py, routes/upload.py),             *)
(*   - the agent entrypoint (services/agent.py, routes/agent.py).          *)
(*                                                                         *)
(* Text is a sequence of runs [c |-> character, n |-> repetitions]; this   *)
(* is an exact representation of a string that keeps a 2001-character      *)
(* body small.  Token texts of PDF pages are given by their token count;   *)
(* a chunk is the span [lo, hi) of token positions it holds.               *)
(***************************************************************************)
EXTENDS Integers, Sequences, FiniteSets, TLC

(* ----------------------------- bounds --------------------------------- *)
\* longest enumerated candidate list of a rerank call (besides the lists
\* around the batch cap)
MaxDocs == 3
\* model turns of one agent run that the model follows
MaxTurns == 4
\* pages of an uploaded PDF
MaxPages == 2
\* ingestion calls followed in one run
MaxIngests == 2
\* chat-model stream events of one streaming request
MaxTokens == 3

(* ------------------------ program constants --------------------------- *)
\* app.py:113  len(request.documents) > 100
MAX_DOCUMENTS == 100
\* app.py:121  len(doc.content) > 2000
MAX_CONTENT_CHARS == 2000
\* app.py:25   top_k: int = 8
DEFAULT_TOP_K == 8
\* ml_models.py:63  top_k: int = 5
ML_DEFAULT_TOP_K == 5
\* config.py:22  RAG_MAX_CHUNK_SIZE: int = 1000
RAG_MAX_CHUNK_SIZE == 1000
\* rag.py:33  chunk_overlap=150
chunk_overlap == 150
\* routes/agent.py:11  maxIterations: Optional[int] = 10
DEFAULT_MAX_ITERATIONS == 10
\* rag.py:52  query(self, query, k=5)
RAG_QUERY_K == 5

VARIABLES
    \* reranker service (app.py): module globals and the lifespan's position
    processor, model, svcPc,
    \* MLServices (ml_models.py): the two model slots, load_models' position,
    \* and what each load attempt did (the logger lines of load_models)
    _reranker, _embedding_model, mlPc, loadLog,
    \* the call being served / last served by a model-backed operation
    request, response, scores, scored_docs,
    \* RAGService (rag.py): splitter setting, the Chroma collection, the
    \* ingestion call last served, the documents ingested so far
    chunk_size, index, ingest, ingested, nIngest,
    \* the module-level RAGService() of rag.py:63: being built, ready, or failed
    ragPc,
    \* agent run (agent.py): position, parameters, turns and result
    agentPc, agentReq, agentTurns, messages, agentResult,
    \* streaming agent request (routes/agent.py stream_agent): the generator's
    \* position, the contents of the chat-model stream events so far, and the
    \* frames the generator has yielded
    streamPc, produced, frames

svcVars == <<processor, model, svcPc>>
mlVars == <<_reranker, _embedding_model, mlPc, loadLog>>
callVars == <<request, response, scores, scored_docs>>
ragVars == <<chunk_size, index, ingest, ingested, nIngest, ragPc>>
streamVars == <<streamPc, produced, frames>>
agentVars == <<agentPc, agentReq, agentTurns, messages, agentResult, streamVars>>
vars == <<svcVars, mlVars, callVars, ragVars, agentVars>>

(* ------------------------------ text ----------------------------------- *)
Run(c, n) == [c |-> c, n |-> n]

RECURSIVE StrLen(_)
\* len(s)
StrLen(s) == IF s = <<>> THEN 0 ELSE Head(s).n + StrLen(Tail(s))

RECURSIVE StrTake(_, _)
\* s[:k] for k >= 0
StrTake(s, k) ==
    IF s = <<>> \/ k <= 0 THEN <<>>
    ELSE IF Head(s).n <= k
         THEN <<Head(s)>> \o StrTake(Tail(s), k - Head(s).n)
         ELSE <<Run(Head(s).c, k)>>

\* Python's lst[:k]: the first k items, and for k < 0 all but the last -k
PySliceTo(lst, k) ==
    IF k >= 0
    THEN SubSeq(lst, 1, IF k < Len(lst) THEN k ELSE Len(lst))
    ELSE SubSeq(lst, 1, IF Len(lst) + k > 0 THEN Len(lst) + k ELSE 0)

Min(a, b) == IF a <= b THEN a ELSE b

Range(f) == {f[i] : i \in DOMAIN f}

RECURSIVE SeqsUpTo(_, _)
\* all sequences over S of length <= n
SeqsUpTo(S, n) ==
    IF n = 0 THEN {<<>>}
    ELSE LET shorter == SeqsUpTo(S, n - 1)
         IN  shorter \cup {Append(q, x) : q \in {r \in shorter : Len(r) = n - 1}, x \in S}

(* --------------------------- stable sort ------------------------------- *)
PlaceTiesLastFirst(keys, i) ==
    1 + Cardinality({j \in DOMAIN keys : keys[j] > keys[i]})
      + Cardinality({j \in DOMAIN keys : j > i /\ keys[j] = keys[i]})

\* where list.sort(key=..., reverse=True) puts item i: behind every item with a
\* greater key and, the sort being stable, behind the earlier items with an
\* equal key
PlaceInSortDesc(keys, i) ==
    1 + Cardinality({j \in DOMAIN keys : keys[j] > keys[i]})
      + Cardinality({j \in DOMAIN keys : j < i /\ keys[j] = keys[i]})

\* lst.sort(key=lambda x: keys[x], reverse=True)
SortDesc(lst, keys) ==
    LET place == [i \in DOMAIN keys |-> PlaceInSortDesc(keys, i)] \o <<>>
    IN  [p \in 1..Len(lst) |-> lst[CHOOSE i \in 1..Len(lst) : place[i] = p]] \o <<>>

(* ------------------- reranker service: requests ------------------------ *)
TextEmpty == <<>>
TextA == <<Run("a", 1)>>
TextMax == <<Run("a", MAX_CONTENT_CHARS)>>
TextLongB == <<Run("a", MAX_CONTENT_CHARS), Run("b", 1)>>
TextLongC == <<Run("a", MAX_CONTENT_CHARS), Run("c", 1)>>
Texts == {TextEmpty, TextA, TextMax, TextLongB, TextLongC}

\* class Document: content, metadata, score (Optional, None by default)
Document(content, metadata, score) ==
    [content |-> content, metadata |-> metadata, score |-> score]

CandidateDocs ==
    { Document(TextA, "m1", "None"), Document(TextEmpty, "m1", "None"),
      Document(TextLongB, "m1", "None"), Document(TextLongC, "m2", "None"),
      Document(TextMax, "m2", "None") }

\* a batch of n candidates, for the sizes around the cap
BigBatch(n) ==
    [i \in 1..n |-> Document(IF i % 2 = 1 THEN TextA ELSE TextEmpty,
                             IF i % 3 = 0 THEN "m2" ELSE "m1", "None")]

BatchSizes == {MAX_DOCUMENTS - 1, MAX_DOCUMENTS, MAX_DOCUMENTS + 1}

DocLists == SeqsUpTo(CandidateDocs, MaxDocs)

BigDocLists == {BigBatch(n) : n \in BatchSizes}

\* MLServices.rerank does not look into a text: three of them are enough
TextLists == SeqsUpTo({TextEmpty, TextA, TextLongB}, MaxDocs)

BigTextLists == {[i \in 1..n |-> BigBatch(n)[i].content] : n \in BatchSizes}

\* top_k: int -- the request model admits every integer
TopKs == {-1, 0, 2, DEFAULT_TOP_K}

MLTopKs == {-1, 0, 2, ML_DEFAULT_TOP_K}

\* relevance scores (floats in the code; only their order matters here)
Scores == {1, 2}

\* class RerankRequest
RerankRequests ==
    [kind : {"rerank"}, query : {"q"}, documents : DocLists,
     top_k : TopKs, return_scores : BOOLEAN]
    \cup [kind : {"rerank"}, query : {"q"}, documents : BigDocLists,
          top_k : {DEFAULT_TOP_K}, return_scores : {TRUE}]

\* the arguments of a call of MLServices.rerank
MLRerankCalls ==
    [documents : TextLists, top_k : MLTopKs]
    \cup [documents : BigTextLists, top_k : {ML_DEFAULT_TOP_K}]

NoCall == [kind |-> "none"]
Pending == [kind |-> "pending"]
HTTPException(status_code, detail) ==
    [kind |-> "http_error", status_code |-> status_code, detail |-> detail]

(* ------------------- reranker service: lifespan ------------------------ *)
\* app.py:74  processor = AutoProcessor.from_pretrained(MODEL_NAME), or it raises
LifespanLoadProcessor ==
    /\ svcPc = "created"
    /\ \/ /\ processor' = "loaded"
          /\ svcPc' = "processor_loaded"
       \/ /\ processor' = processor
          /\ svcPc' = "failed"
    /\ UNCHANGED <<model, mlVars, callVars, ragVars, agentVars>>

\* app.py:75-80  model = ...from_pretrained(MODEL_NAME); model.to(); model.eval();
\* yield -- or one of them raises and the lifespan re-raises (app.py:81-83)
LifespanLoadModel ==
    /\ svcPc = "processor_loaded"
    /\ \/ /\ model' = "loaded"
          /\ svcPc' = "serving"
       \/ /\ model' = "loaded"
          /\ svcPc' = "failed"
       \/ /\ model' = model
          /\ svcPc' = "failed"
    /\ UNCHANGED <<processor, mlVars, callVars, ragVars, agentVars>>

(* ------------------- reranker service: /rerank ------------------------- *)
\* a POST /rerank arrives; requests are served between the lifespan's yield
\* and shutdown
PostRerank(Requests) ==
    /\ svcPc = "serving"
    /\ response.kind = "none"
    /\ \E req \in Requests :
          /\ request' = req
          /\ response' = Pending
          /\ scores' = <<>>
          /\ scored_docs' = <<>>
    /\ UNCHANGED <<svcVars, mlVars, ragVars, agentVars>>

\* app.py:109, 164  if model is None or processor is None
ModelNotLoaded == model = "None" \/ processor = "None"

\* what GET /health reports by the globals (app.py:97-103)
HealthByProcessor ==
    [status |-> IF processor # "None" THEN "healthy" ELSE "initializing",
     model_loaded |-> processor # "None"]

\* app.py:95-103  health_check: loaded = model is not None
health_check ==
    [status |-> IF model # "None" THEN "healthy" ELSE "initializing",
     model_loaded |-> model # "None"]

\* a GET /health is served
GetHealth ==
    /\ svcPc = "serving"
    /\ response.kind = "none"
    /\ request' = [kind |-> "health"]
    /\ response' = [kind |-> "health", status |-> health_check.status,
                    model_loaded |-> health_check.model_loaded]
    /\ scores' = <<>>
    /\ scored_docs' = <<>>
    /\ UNCHANGED <<svcVars, mlVars, ragVars, agentVars>>

\* POST /score requests: query, texts, return_raw_scores
ScoreRequests ==
    [kind : {"score"}, query : {"q"}, texts : {<<>>, <<TextA>>, <<TextA, TextLongB>>},
     return_raw_scores : BOOLEAN]

\* app.py:175  1 / (1 + exp(-score))
Probability(score) == <<"sigmoid", score>>

\* app.py:157-179  score_pairs
score_pairs ==
    /\ svcPc = "serving"
    /\ response.kind = "none"
    /\ \E req \in ScoreRequests :
          /\ request' = req
          /\ IF ModelNotLoaded
             THEN /\ response' = HTTPException(503, "Model not loaded")
                  /\ scores' = <<>>
             ELSE IF req.texts = <<>>
             THEN /\ response' = HTTPException(400, "No texts provided")
                  /\ scores' = <<>>
             ELSE \/ \E sf \in [Range(req.texts) -> Scores] :
                       LET sc == [i \in DOMAIN req.texts |-> sf[req.texts[i]]] \o <<>>
                       IN  /\ scores' = sc
                           /\ response' =
                                 IF req.return_raw_scores
                                 THEN [kind |-> "scores", scores |-> sc]
                                 ELSE [kind |-> "probabilities",
                                       probabilities |->
                                           [i \in DOMAIN sc |-> Probability(sc[i])] \o <<>>]
                  \/ /\ response' = HTTPException(500, "Scoring failed")
                     /\ scores' = <<>>
    /\ scored_docs' = <<>>
    /\ UNCHANGED <<svcVars, mlVars, ragVars, agentVars>>

\* app.py:119-126  the text that is scored for one document
ScoredText(content) ==
    IF content # <<>>
    THEN IF StrLen(content) > MAX_CONTENT_CHARS
         THEN StrTake(content, MAX_CONTENT_CHARS)
         ELSE content
    ELSE <<>>

\* app.py:118-126  contents
Contents(documents) ==
    [i \in DOMAIN documents |-> ScoredText(documents[i].content)] \o <<>>

ReturnedTruncated(doc) == ScoredText(doc.content)

\* app.py:135  content=doc.content
ReturnedContent(doc) == doc.content

\* app.py:132-139  scored_docs before the sort; i is enumerate's index (0-based)
ScoredDocs(req, sc) ==
    [i \in DOMAIN req.documents |->
        [doc |-> Document(ReturnedContent(req.documents[i]), req.documents[i].metadata,
                          IF req.return_scores THEN sc[i] ELSE "None"),
         score_value |-> sc[i],
         i |-> i - 1]]

\* app.py:141  top_k = min(request.top_k, len(scored_docs))
ClampTopK(top_k, n) == Min(top_k, n)

\* app.py:140-151  sort, cut, respond
RerankResponse(req, sorted) ==
    LET top_k == ClampTopK(req.top_k, Len(sorted))
        reranked == [p \in DOMAIN PySliceTo(sorted, top_k) |-> sorted[p].doc]
    IN  [kind |-> "rerank_ok",
         reranked_documents |-> reranked,
         original_count |-> Len(req.documents),
         returned_count |-> Len(reranked)]

\* app.py:106-154  rerank_documents
rerank_documents ==
    /\ response.kind = "pending"
    /\ request.kind = "rerank"
    /\ IF ModelNotLoaded
       THEN /\ response' = HTTPException(503, "Model not loaded")
            /\ UNCHANGED <<scores, scored_docs>>
       ELSE IF request.documents = <<>>
       THEN /\ response' = HTTPException(400, "No documents provided")
            /\ UNCHANGED <<scores, scored_docs>>
       ELSE IF Len(request.documents) > MAX_DOCUMENTS
       THEN /\ response' = HTTPException(400, "Too many documents (max 100)")
            /\ UNCHANGED <<scores, scored_docs>>
       ELSE \/ \E sf \in [Range(Contents(request.documents)) -> Scores] :
                 LET contents == Contents(request.documents)
                     sc == [i \in DOMAIN contents |-> sf[contents[i]]] \o <<>>
                     unsorted == ScoredDocs(request, sc)
                     sorted == SortDesc(unsorted, sc)
                 IN  /\ scores' = sc
                     /\ scored_docs' = sorted
                     /\ response' = RerankResponse(request, sorted)
            \/ /\ response' = HTTPException(500, "Reranking failed")
               /\ UNCHANGED <<scores, scored_docs>>
    /\ request' = request
    /\ UNCHANGED <<svcVars, mlVars, ragVars, agentVars>>

(* ------------------------- MLServices ---------------------------------- *)
Untried == [rp |-> "untried", ep |-> "untried", rf |-> "untried", ef |-> "untried"]

\* ml_models.py:32-33  self._reranker = CrossEncoder(RERANKER_MODEL), or it raises
LoadRerankerPrimary ==
    /\ mlPc = "created"
    /\ \/ /\ _reranker' = "primary"
          /\ loadLog' = [loadLog EXCEPT !.rp = "ok"]
          /\ mlPc' = "load_embedding"
       \/ /\ _reranker' = _reranker
          /\ loadLog' = [loadLog EXCEPT !.rp = "failed"]
          /\ mlPc' = "except"
    /\ UNCHANGED <<_embedding_model, svcVars, callVars, ragVars, agentVars>>

\* ml_models.py:36-40  self._embedding_model = SentenceTransformer(EMBEDDING_MODEL)
LoadEmbeddingPrimary ==
    /\ mlPc = "load_embedding"
    /\ \/ /\ _embedding_model' = "primary"
          /\ loadLog' = [loadLog EXCEPT !.ep = "ok"]
          /\ mlPc' = "done"
       \/ /\ _embedding_model' = _embedding_model
          /\ loadLog' = [loadLog EXCEPT !.ep = "failed"]
          /\ mlPc' = "except"
    /\ UNCHANGED <<_reranker, svcVars, callVars, ragVars, agentVars>>

\* ml_models.py:47-52  the except block's first try: the fallback reranker
FallbackReranker ==
    /\ mlPc = "except"
    /\ \/ /\ _reranker' = "fallback"
          /\ loadLog' = [loadLog EXCEPT !.rf = "ok"]
       \/ /\ _reranker' = _reranker
          /\ loadLog' = [loadLog EXCEPT !.rf = "failed"]
    /\ mlPc' = "fallback_embedding"
    /\ UNCHANGED <<_embedding_model, svcVars, callVars, ragVars, agentVars>>

\* ml_models.py:55-61  the except block's second try: the fallback embedding
\* model, attempted only if self._embedding_model is None
FallbackEmbedding ==
    /\ mlPc = "fallback_embedding"
    /\ IF _embedding_model = "None"
       THEN \/ /\ _embedding_model' = "fallback"
               /\ loadLog' = [loadLog EXCEPT !.ef = "ok"]
            \/ /\ _embedding_model' = _embedding_model
               /\ loadLog' = [loadLog EXCEPT !.ef = "failed"]
       ELSE UNCHANGED <<_embedding_model, loadLog>>
    /\ mlPc' = "done"
    /\ UNCHANGED <<_reranker, svcVars, callVars, ragVars, agentVars>>

\* ml_models.py:76-80  results before the sort
MLResults(documents, sc) ==
    [i \in DOMAIN documents |-> [text |-> documents[i], score |-> sc[i], index |-> i - 1]]

\* ml_models.py:63-88  MLServices.rerank; the backend serves once load_models
\* has returned (main.py:14-15)
MLRerank(Calls) ==
    /\ mlPc = "done"
    /\ response.kind = "none"
    /\ \E call \in Calls :
        LET documents == call.documents
            top_k == call.top_k
        IN
          /\ request' = [kind |-> "ml_rerank", query |-> "q",
                         documents |-> documents, top_k |-> top_k]
          /\ IF _reranker = "None"
             THEN /\ response' = [kind |-> "returned", results |-> <<>>]
                  /\ scores' = <<>>
                  /\ scored_docs' = <<>>
             ELSE \/ \E sf \in [Range(documents) -> Scores] :
                       LET sc == [i \in DOMAIN documents |-> sf[documents[i]]] \o <<>>
                           sorted == SortDesc(MLResults(documents, sc), sc)
                       IN  /\ scores' = sc
                           /\ scored_docs' = sorted
                           /\ response' = [kind |-> "returned",
                                           results |-> PySliceTo(sorted, top_k)]
                  \/ /\ response' = [kind |-> "returned", results |-> <<>>]
                     /\ scores' = <<>>
                     /\ scored_docs' = <<>>
    /\ UNCHANGED <<svcVars, mlVars, ragVars, agentVars>>

\* the caller has its answer: the call is over
Reply ==
    /\ response.kind \notin {"none", "pending"}
    /\ request' = NoCall
    /\ response' = NoCall
    /\ scores' = <<>>
    /\ scored_docs' = <<>>
    /\ UNCHANGED <<svcVars, mlVars, ragVars, agentVars>>

\* the vector of one text under the loaded embedding model (a non-empty list)
Vec(text) == <<text, _embedding_model>>

\* ml_models.py:90-101  MLServices.embed_documents: what a call can return
embed_documents(texts) ==
    IF _embedding_model = "None"
    THEN {<<>>}
    ELSE {[i \in DOMAIN texts |-> Vec(texts[i])], <<>>}

\* ml_models.py:103-114  MLServices.embed_query: what a call can return
embed_query(text) ==
    IF _embedding_model = "None"
    THEN {<<>>}
    ELSE {Vec(text), <<>>}

\* a call of embed_documents by a client of MLServices
MLEmbedDocuments(Lists) ==
    /\ mlPc = "done"
    /\ response.kind = "none"
    /\ \E texts \in Lists :
          /\ request' = [kind |-> "embed_documents", texts |-> texts]
          /\ \E out \in embed_documents(texts) :
                response' = [kind |-> "returned", results |-> out]
    /\ scores' = <<>>
    /\ scored_docs' = <<>>
    /\ UNCHANGED <<svcVars, mlVars, ragVars, agentVars>>

\* a call of embed_query by a client of MLServices
MLEmbedQuery ==
    /\ mlPc = "done"
    /\ response.kind = "none"
    /\ \E text \in Texts :
          /\ request' = [kind |-> "embed_query", text |-> text]
          /\ \E out \in embed_query(text) :
                response' = [kind |-> "returned", results |-> out]
    /\ scores' = <<>>
    /\ scored_docs' = <<>>
    /\ UNCHANGED <<svcVars, mlVars, ragVars, agentVars>>

(* --------------------------- ingestion --------------------------------- *)
\* token counts of a page's extracted text
PageLens ==
    {0, 1, chunk_overlap, chunk_overlap + 1, 400, 401, 650, 651,
     RAG_MAX_CHUNK_SIZE, RAG_MAX_CHUNK_SIZE + 1, 1850, 1851, 3000}

\* values of the RAG_MAX_CHUNK_SIZE setting
ChunkSizes == {RAG_MAX_CHUNK_SIZE, 400}

\* an uploaded file: PyPDFLoader(file_path).load() gives one document per page,
\* or raises on a file it cannot read
PdfFile(filename, pages, readable) ==
    [filename |-> filename, pages |-> pages, readable |-> readable]

ChunkerFiles ==
    {PdfFile("a.pdf", pages, TRUE) : pages \in SeqsUpTo(PageLens, MaxPages)}
    \cup {PdfFile("a.pdf", <<>>, FALSE)}

IndexFiles ==
    {PdfFile(f, pages, TRUE) : f \in {"a.pdf", "b.pdf"},
                               pages \in SeqsUpTo({0, RAG_MAX_CHUNK_SIZE + 1}, MaxPages)}
    \cup {PdfFile("a.pdf", <<>>, FALSE)}

RECURSIVE SplitFromNoOverlap(_, _, _)
SplitFromNoOverlap(start_idx, n, size) ==
    IF start_idx >= n THEN <<>>
    ELSE LET cur_idx == Min(start_idx + size, n)
         IN  <<[lo |-> start_idx, hi |-> cur_idx]>>
             \o (IF cur_idx = n THEN <<>>
                 ELSE SplitFromNoOverlap(start_idx + size, n, size))

RECURSIVE SplitFrom(_, _, _)
\* rag.py:31-34  TokenTextSplitter(chunk_size, chunk_overlap=150).split_text on a
\* text of n tokens: windows of `size` tokens, each starting size - chunk_overlap
\* after the one before, until a window reaches the end of the text
SplitFrom(start_idx, n, size) ==
    IF start_idx >= n THEN <<>>
    ELSE LET cur_idx == Min(start_idx + size, n)
         IN  <<[lo |-> start_idx, hi |-> cur_idx]>>
             \o (IF cur_idx = n THEN <<>>
                 ELSE SplitFrom(start_idx + size - chunk_overlap, n, size))

RECURSIVE SplitPages(_, _, _, _)
\* rag.py:40-45  metadata on every page document, then split_documents: the
\* chunks of page 1, then those of page 2, ...; each carries its page's metadata
SplitPages(filename, pages, p, size) ==
    IF p > Len(pages) THEN <<>>
    ELSE LET spans == SplitFrom(0, pages[p], size)
         IN  [k \in DOMAIN spans |->
                 [source |-> filename, page |-> p - 1,
                  lo |-> spans[k].lo, hi |-> spans[k].hi]]
             \o SplitPages(filename, pages, p + 1, size)

split_documents(file) == SplitPages(file.filename, file.pages, 1, chunk_size)

\* rag.py:48  vector_store.add_documents(chunks) with no ids: the store gives
\* every record a fresh uuid4, here the next unused number
NewRecords(chunks, embeddings) ==
    {[id |-> Cardinality(index) + k,
      source |-> chunks[k].source, page |-> chunks[k].page,
      lo |-> chunks[k].lo, hi |-> chunks[k].hi,
      embedding |-> IF embeddings = <<>> THEN <<>> ELSE embeddings[k]]
       : k \in DOMAIN chunks}

\* upload.py:24-28  the route's success body
UploadSuccess(file, n) ==
    [kind |-> "success", chunks |-> n, filename |-> file.filename]

IngestCall(file, chunks, embeddings, resp) ==
    [file |-> file, chunks |-> chunks, embeddings |-> embeddings, response |-> resp]

\* values of RAG_MAX_CHUNK_SIZE in the environment of a deployment; the
\* setting is a plain int (config.py:22)
ConfigSizes ==
    {chunk_overlap - 1, chunk_overlap, chunk_overlap + 50, RAG_MAX_CHUNK_SIZE}

\* rag.py:12-34, 63  RAGService() at import: TokenTextSplitter refuses an
\* overlap larger than the chunk size (the import fails with its ValueError)
\* and takes every other pair as it is; nothing in the repository checks the
\* setting
RAGServiceInit ==
    /\ ragPc = "importing"
    /\ \E size \in ConfigSizes :
          IF chunk_overlap > size
          THEN /\ ragPc' = "failed"
               /\ UNCHANGED chunk_size
          ELSE /\ ragPc' = "ready"
               /\ chunk_size' = size
    /\ UNCHANGED <<index, ingest, ingested, nIngest, svcVars, mlVars, callVars, agentVars>>

\* the splitter's window does not advance (chunk_size - chunk_overlap < 1) and
\* a page does not fit one window: split_documents cannot finish
Stalls(file) ==
    /\ chunk_size - chunk_overlap < 1
    /\ \E p \in DOMAIN file.pages : file.pages[p] > chunk_size

\* the request is never answered
NeverReturns == [kind |-> "never_returns"]

\* upload.py:11-30 upload_file with rag.py:36-50 ingest_pdf.  An exception of
\* ingest_pdf becomes HTTP 500 with the exception's text (upload.py:29-30).
\* embed_documents returns [] when the model is missing or encode raises; the
\* code does not look at what it returned, and what the vector store makes of
\* texts without vectors is its own: it raises, or it stores them as they are.
IngestPdf(Files) ==
    /\ ragPc = "ready"
    /\ nIngest < MaxIngests
    /\ nIngest' = nIngest + 1
    /\ \E file \in Files :
          IF ~file.readable
          THEN /\ ingest' = IngestCall(file, <<>>, <<>>, HTTPException(500, "load failed"))
               /\ UNCHANGED <<index, ingested>>
          ELSE IF Stalls(file)
          THEN /\ \E resp \in {NeverReturns, HTTPException(500, "splitter error")} :
                     ingest' = IngestCall(file, <<>>, <<>>, resp)
               /\ UNCHANGED <<index, ingested>>
          ELSE LET chunks == split_documents(file)
               IN  IF chunks = <<>>
                   THEN /\ ingest' = IngestCall(file, chunks, <<>>, UploadSuccess(file, 0))
                        /\ UNCHANGED <<index, ingested>>
                   ELSE \E embeddings \in embed_documents(chunks) :
                           \/ /\ embeddings # <<>>
                              /\ index' = index \cup NewRecords(chunks, embeddings)
                              /\ ingest' = IngestCall(file, chunks, embeddings,
                                                      UploadSuccess(file, Len(chunks)))
                              /\ ingested' = ingested \cup {file}
                           \/ /\ embeddings = <<>>
                              /\ index' = index \cup NewRecords(chunks, embeddings)
                              /\ ingest' = IngestCall(file, chunks, embeddings,
                                                      UploadSuccess(file, Len(chunks)))
                              /\ UNCHANGED ingested
                           \/ /\ embeddings = <<>>
                              /\ ingest' = IngestCall(file, chunks, embeddings,
                                                      HTTPException(500, "vector store error"))
                              /\ UNCHANGED <<index, ingested>>
    /\ UNCHANGED <<chunk_size, ragPc, svcVars, mlVars, callVars, agentVars>>

(* ------------------------------ query ---------------------------------- *)
\* texts of stored chunks
Corpus == {"t1", "t2", "t3", "t4", "t5"}

\* what similarity_search_with_score(query, k) can return: at most k stored
\* chunks, nearest first, none twice
SearchHits(k) ==
    {h \in SeqsUpTo(Corpus, Min(k, Cardinality(Corpus))) :
        \A i, j \in DOMAIN h : i # j => h[i] # h[j]}

\* routes/rag.py:8-12  class RAGQueryRequest (the two flags that no claim is
\* about keep their defaults)
RAGQueryRequests ==
    [kind : {"rag_query"}, query : {"q"}, enableReranking : BOOLEAN]

\* rag.py:54-60  one result per (doc, score) pair, in the order of the pairs
QueryResults(docs) ==
    [i \in DOMAIN docs |->
        [content |-> docs[i].doc, metadata |-> "m", score |-> docs[i].score]]

\* routes/rag.py:14-23 query_rag with rag.py:52-61 RAGService.query: the
\* request's query alone is passed on, k keeps its default; the query is
\* embedded (llm_utils.py:16-17) and the store searched; any exception
\* becomes HTTP 500.  A search with no query vector is refused by the store.
QueryRag ==
    /\ mlPc = "done"
    /\ response.kind = "none"
    /\ \E req \in RAGQueryRequests :
          /\ request' = req
          /\ \E vec \in embed_query(req.query) :
                IF vec = <<>>
                THEN /\ scored_docs' = <<>>
                     /\ response' = HTTPException(500, "vector store error")
                ELSE \/ \E h \in SearchHits(RAG_QUERY_K) :
                          LET docs == [i \in DOMAIN h |-> [doc |-> h[i], score |-> i]]
                          IN  /\ scored_docs' = docs
                              /\ response' = [kind |-> "success",
                                              data |-> QueryResults(docs)]
                     \/ /\ scored_docs' = <<>>
                        /\ response' = HTTPException(500, "vector store error")
    /\ scores' = <<>>
    /\ UNCHANGED <<svcVars, mlVars, ragVars, agentVars>>

(* ----------------------------- agent ----------------------------------- *)
\* agent.py:12-15  get_mcp_tools() returns no tools
tools == {}

\* tools a model reply may ask for
ToolNames == {"rag_search", "jira"}

\* routes/agent.py:9-12  class QueryRequest
AgentRequests ==
    [query : {"q1", "q2"}, maxIterations : {1, 2, 3, DEFAULT_MAX_ITERATIONS}]

\* routes/agent.py:14-16 query_agent and agent.py:44-46 process_query: the
\* inputs hold the query alone; max_iterations is passed in and not used
QueryAgent ==
    /\ agentPc \in {"idle", "returned"}
    /\ \E req \in AgentRequests :
          /\ agentReq' = req
          /\ messages' = <<[type |-> "human", content |-> req.query]>>
    /\ agentTurns' = 0
    /\ agentResult' = Pending
    /\ agentPc' = "agent"
    /\ UNCHANGED <<streamVars, svcVars, mlVars, callVars, ragVars>>

\* agent.py:46  self.agent.ainvoke(inputs), one turn of the prebuilt ReAct
\* loop: the chat model answers with a final text, asks for a tool, or the
\* call raises (routes/agent.py:26-27 turns that into HTTP 500)
AgentCallModel ==
    /\ agentPc = "agent"
    /\ agentTurns < MaxTurns
    /\ agentTurns' = agentTurns + 1
    /\ \/ /\ messages' = Append(messages, [type |-> "ai", content |-> "final"])
          /\ agentPc' = "returned"
          /\ agentResult' = [kind |-> "success", data |-> messages']
       \/ \E t \in ToolNames :
             /\ messages' = Append(messages, [type |-> "ai", content |-> "tool_call", name |-> t])
             /\ agentPc' = "tools"
             /\ UNCHANGED agentResult
       \/ /\ messages' = messages
          /\ agentPc' = "returned"
          /\ agentResult' = HTTPException(500, "model call failed")
    /\ UNCHANGED <<agentReq, streamVars, svcVars, mlVars, callVars, ragVars>>

\* agent.py:21  create_react_agent(self.llm, self.tools): the tool step answers
\* the model's request with a tool message and hands back to the model
AgentCallTools ==
    /\ agentPc = "tools"
    /\ LET asked == messages[Len(messages)].name
       IN  messages' = Append(messages,
               [type |-> "tool", name |-> asked,
                content |-> IF asked \in tools THEN "result" ELSE "not a valid tool"])
    /\ agentPc' = "agent"
    /\ UNCHANGED <<agentReq, agentTurns, agentResult, streamVars, svcVars, mlVars, callVars, ragVars>>

(* ----------------------- agent: streaming ------------------------------ *)
\* Text on the wire is a sequence of pieces: a newline, a double quote, the
\* SSE field prefix "data: ", the marker text "[DONE]", or other text.
NL == "\n"

QUOTE == "\""

\* contents of the chat model's stream chunks
Tokens ==
    { <<>>, <<"x">>, <<"y">>, <<QUOTE>>, <<"data: ", "[DONE]">>,
      <<NL, NL, "data: ", "[DONE]", NL, NL>> }

\* routes/agent.py:32  f"data: {{\"type\": \"connected\", ...}}\n\n"
ConnectedFrame ==
    <<"data: ", "{", QUOTE, "type", QUOTE, ": ", QUOTE, "connected", QUOTE, "}", NL, NL>>

\* routes/agent.py:34  f"data: {{\"type\": \"token\", \"content\": \"{chunk}\"}}\n\n":
\* the chunk is put between the quotes as it is
TokenFrame(chunk) ==
    <<"data: ", "{", QUOTE, "type", QUOTE, ": ", QUOTE, "token", QUOTE, ", ",
      QUOTE, "content", QUOTE, ": ", QUOTE>>
    \o chunk \o <<QUOTE, "}", NL, NL>>

\* routes/agent.py:35  "data: [DONE]\n\n"
DoneFrame == <<"data: ", "[DONE]", NL, NL>>

\* routes/agent.py:29-32,37  stream_agent: StreamingResponse(generate()); the
\* generator's first yield is the connected frame
StreamAgent ==
    /\ streamPc \in {"idle", "done", "aborted"}
    /\ streamPc' = "streaming"
    /\ produced' = <<>>
    /\ frames' = <<ConnectedFrame>>
    /\ UNCHANGED <<agentPc, agentReq, agentTurns, messages, agentResult,
                   svcVars, mlVars, callVars, ragVars>>

\* agent.py:51-56 and routes/agent.py:33-34  one on_chat_model_stream event of
\* astream_events: stream_query yields its content if it is not empty, and
\* generate wraps what it gets in a token frame
StreamChunk ==
    /\ streamPc = "streaming"
    /\ Len(produced) < MaxTokens
    /\ \E content \in Tokens :
          /\ produced' = Append(produced, content)
          /\ frames' = IF content # <<>>
                        THEN Append(frames, TokenFrame(content))
                        ELSE frames
    /\ UNCHANGED <<streamPc, agentPc, agentReq, agentTurns, messages, agentResult,
                   svcVars, mlVars, callVars, ragVars>>

\* routes/agent.py:35  the events are exhausted: generate yields the done marker
StreamDone ==
    /\ streamPc = "streaming"
    /\ frames' = Append(frames, DoneFrame)
    /\ streamPc' = "done"
    /\ UNCHANGED <<produced, agentPc, agentReq, agentTurns, messages, agentResult,
                   svcVars, mlVars, callVars, ragVars>>

\* agent.py:51  astream_events raises (the chat model call fails): nothing in
\* stream_query or generate catches it, the generator ends there
StreamRaise ==
    /\ streamPc = "streaming"
    /\ streamPc' = "aborted"
    /\ UNCHANGED <<produced, frames, agentPc, agentReq, agentTurns, messages,
                   agentResult, svcVars, mlVars, callVars, ragVars>>

RECURSIVE Concat(_)
\* the bytes of the response body: the frames one after the other
Concat(fs) == IF fs = <<>> THEN <<>> ELSE Head(fs) \o Concat(Tail(fs))

(* ------------------------- specifications ------------------------------ *)
InitSvc == processor = "None" /\ model = "None" /\ svcPc = "created"

InitML ==
    /\ _reranker = "None"
    /\ _embedding_model = "None"
    /\ mlPc = "created"
    /\ loadLog = Untried

InitCall == request = NoCall /\ response = NoCall /\ scores = <<>> /\ scored_docs = <<>>

InitRag ==
    /\ chunk_size = RAG_MAX_CHUNK_SIZE
    /\ index = {}
    /\ ingest = NoCall
    /\ ingested = {}
    /\ nIngest = 0
    /\ ragPc = "ready"

InitAgent ==
    /\ agentPc = "idle"
    /\ agentReq = [query |-> "", maxIterations |-> DEFAULT_MAX_ITERATIONS]
    /\ agentTurns = 0
    /\ messages = <<>>
    /\ agentResult = NoCall
    /\ streamPc = "idle"
    /\ produced = <<>>
    /\ frames = <<>>

\* the states in which load_models can leave MLServices
LoadOutcomes ==
    {[r |-> "primary", e |-> "primary",
      log |-> [rp |-> "ok", ep |-> "ok", rf |-> "untried", ef |-> "untried"]]}
    \cup {[r |-> IF rf = "ok" THEN "fallback" ELSE "primary",
           e |-> IF ef = "ok" THEN "fallback" ELSE "None",
           log |-> [rp |-> "ok", ep |-> "failed", rf |-> rf, ef |-> ef]]
             : rf \in {"ok", "failed"}, ef \in {"ok", "failed"}}
    \cup {[r |-> IF rf = "ok" THEN "fallback" ELSE "None",
           e |-> IF ef = "ok" THEN "fallback" ELSE "None",
           log |-> [rp |-> "failed", ep |-> "untried", rf |-> rf, ef |-> ef]]
             : rf \in {"ok", "failed"}, ef \in {"ok", "failed"}}

\* both services started: the reranker service is serving, load_models returned
InitStarted ==
    /\ processor = "loaded" /\ model = "loaded" /\ svcPc = "serving"
    /\ mlPc = "done"
    /\ \E o \in LoadOutcomes :
          _reranker = o.r /\ _embedding_model = o.e /\ loadLog = o.log

\* requests of the start-up specification
FewDocLists == SeqsUpTo({Document(TextA, "m1", "None"), Document(TextLongB, "m2", "None")}, 1)

FewRequests ==
    [kind : {"rerank"}, query : {"q"}, documents : FewDocLists,
     top_k : {2}, return_scores : {TRUE}]

FewTextLists == {<<TextA>>, <<TextLongB>>}

Init == InitSvc /\ InitML /\ InitCall /\ InitRag /\ InitAgent

\* start-up of both services, and the calls that need a model
Next ==
    \/ LifespanLoadProcessor
    \/ LifespanLoadModel
    \/ LoadRerankerPrimary
    \/ LoadEmbeddingPrimary
    \/ FallbackReranker
    \/ FallbackEmbedding
    \/ PostRerank(FewRequests)
    \/ rerank_documents
    \/ GetHealth
    \/ score_pairs
    \/ MLRerank([documents : FewTextLists, top_k : {ML_DEFAULT_TOP_K}])
    \/ MLEmbedDocuments(FewTextLists)
    \/ MLEmbedQuery
    \/ Reply

Spec == Init /\ [][Next]_vars

\* reranking, on started services; reranking does not use the embedding
\* model, so the start states are those that have one
InitRerank ==
    /\ InitStarted /\ InitCall /\ InitRag /\ InitAgent
    /\ _embedding_model # "None"

NextRerank ==
    \/ PostRerank(RerankRequests)
    \/ rerank_documents
    \/ MLRerank(MLRerankCalls)
    \/ Reply

SpecRerank == InitRerank /\ [][NextRerank]_vars

\* queries of the index, on started services
NextQuery ==
    \/ QueryRag
    \/ Reply

InitQuery == InitStarted /\ InitCall /\ InitRag /\ InitAgent

SpecQuery == InitQuery /\ [][NextQuery]_vars

\* ingestion into the index, on started services
InitIngest == InitStarted /\ InitCall /\ InitRag /\ InitAgent

NextIngest == IngestPdf(IndexFiles)

SpecIngest == InitIngest /\ [][NextIngest]_vars

\* construction of the service from its configuration, and a first ingestion
InitConfig ==
    /\ InitStarted /\ InitCall /\ InitAgent
    /\ chunk_size = 0
    /\ index = {}
    /\ ingest = NoCall
    /\ ingested = {}
    /\ nIngest = 0
    /\ ragPc = "importing"

NextConfig ==
    \/ RAGServiceInit
    \/ nIngest = 0 /\ IngestPdf(ChunkerFiles)

SpecConfig == InitConfig /\ [][NextConfig]_vars

\* the chunks of a service's first ingestion, for every chunk-size setting
InitChunk ==
    /\ InitStarted /\ InitCall /\ InitAgent
    /\ chunk_size \in ChunkSizes
    /\ index = {}
    /\ ingest = NoCall
    /\ ingested = {}
    /\ nIngest = 0
    /\ ragPc = "ready"

NextChunk == nIngest = 0 /\ IngestPdf(ChunkerFiles)

SpecChunk == InitChunk /\ [][NextChunk]_vars

\* agent runs
NextAgent ==
    \/ QueryAgent
    \/ AgentCallModel
    \/ AgentCallTools

SpecAgent == Init /\ [][NextAgent]_vars

\* streaming agent requests
NextStream ==
    \/ StreamAgent
    \/ StreamChunk
    \/ StreamDone
    \/ StreamRaise

SpecStream == Init /\ [][NextStream]_vars

(* ============================ claims =================================== *)
CallAnswered == response.kind \notin {"none", "pending"}

IsRerankCall == request.kind \in {"rerank", "ml_rerank"}

\* the run ended on a final answer of the model
Finalized ==
    /\ messages # <<>>
    /\ messages[Len(messages)].type = "ai"
    /\ messages[Len(messages)].content = "final"

\* C1: an agent run never takes more than max_iterations turns; a run that
\* returns a result either finalized within them, or took exactly
\* max_iterations turns and its result is flagged IterationBudgetExceeded.
C1_IterationBudget ==
    agentPc # "idle" =>
        /\ agentTurns <= agentReq.maxIterations
        /\ (agentPc = "returned" /\ agentResult.kind # "http_error") =>
               \/ Finalized /\ agentResult.kind = "success"
               \/ /\ agentTurns = agentReq.maxIterations
                  /\ agentResult.kind = "iteration_budget_exceeded"

RejectedWith(detail) ==
    /\ response.kind = "http_error"
    /\ response.status_code = 400
    /\ response.detail = detail

\* the model the call needs is loaded
BackendLoaded ==
    IF request.kind = "rerank"
    THEN model # "None" /\ processor # "None"
    ELSE _reranker # "None"

\* C2: on either backend (its model loaded) a rerank call with no candidates is rejected as
\* NoDocuments, one with more than 100 candidates is rejected as
\* TooManyDocuments, in both cases with nothing scored and nothing returned,
\* and a call with 1..100 candidates is not rejected by this validation.
C2_BatchValidation ==
    (CallAnswered /\ IsRerankCall /\ BackendLoaded) =>
        LET n == Len(request.documents)
        IN  /\ n = 0 => (RejectedWith("No documents provided") /\ scores = <<>>)
            /\ n > MAX_DOCUMENTS =>
                   (RejectedWith("Too many documents (max 100)") /\ scores = <<>>)
            /\ n \in 1..MAX_DOCUMENTS =>
                   ~(response.kind = "http_error" /\ response.status_code = 400)

\* the documents a rerank call returned
Returned ==
    IF response.kind = "rerank_ok" THEN response.reranked_documents
    ELSE IF response.kind = "returned" /\ request.kind = "ml_rerank" THEN response.results
    ELSE <<>>

\* the score under which the p-th sorted item was sorted, and its place in the input
SortKey(p) ==
    IF request.kind = "rerank" THEN scored_docs[p].score_value ELSE scored_docs[p].score

InputPlace(p) ==
    IF request.kind = "rerank" THEN scored_docs[p].i ELSE scored_docs[p].index

\* C3: the documents an accepted rerank call returns are in descending order of
\* their scores, and two of them with equal scores are in their input order.
C3_SortedStable ==
    (CallAnswered /\ IsRerankCall) =>
        /\ Len(Returned) <= Len(scored_docs)
        /\ \A p \in DOMAIN Returned :
              /\ Returned[p] = (IF request.kind = "rerank" THEN scored_docs[p].doc
                                ELSE scored_docs[p])
              /\ SortKey(p) = scores[InputPlace(p) + 1]
        /\ \A p, q \in DOMAIN Returned :
              p < q => /\ SortKey(p) >= SortKey(q)
                       /\ SortKey(p) = SortKey(q) => InputPlace(p) < InputPlace(q)

\* a returned list with two equal scores behind a greater one
C3_Witness ==
    /\ CallAnswered /\ IsRerankCall
    /\ \E p, q, r \in DOMAIN Returned :
          /\ p < q /\ q < r
          /\ SortKey(p) > SortKey(q)
          /\ SortKey(q) = SortKey(r)
          /\ InputPlace(p) > InputPlace(r)

\* C4: an accepted /rerank request with n documents gets all n back when
\* top_k >= n and otherwise exactly the top_k highest-scored ones (none for a
\* top_k below 1); original_count = n and returned_count = the number of
\* returned documents <= n.
C4_TopKClamp ==
    response.kind = "rerank_ok" =>
        LET n == Len(request.documents)
            k == request.top_k
        IN  /\ response.original_count = n
            /\ response.returned_count = Len(response.reranked_documents)
            /\ response.returned_count <= n
            /\ k >= n => response.returned_count = n
            /\ k < n => response.returned_count = (IF k > 0 THEN k ELSE 0)
            /\ \A p \in DOMAIN response.reranked_documents :
                  response.reranked_documents[p] = scored_docs[p].doc

\* C5: /rerank scores a document on its first 2000 characters (documents that
\* agree on them get the same score), returns every document's content and
\* metadata as they were sent, pairs the i-th score with the i-th request
\* document, and leaves the request as it was.
C5_ScoreTruncatedReturnFull ==
    [][(response.kind = "pending" /\ request.kind = "rerank" /\ response'.kind = "rerank_ok") =>
        LET docs == request.documents
        IN  /\ request' = request
            /\ Len(scores') = Len(docs)
            /\ \A i, j \in DOMAIN docs :
                  StrTake(docs[i].content, MAX_CONTENT_CHARS)
                    = StrTake(docs[j].content, MAX_CONTENT_CHARS)
                  => scores'[i] = scores'[j]
            /\ Len(scored_docs') = Len(docs)
            /\ {scored_docs'[p].i + 1 : p \in DOMAIN scored_docs'} = DOMAIN docs
            /\ \A p \in DOMAIN scored_docs' :
                  LET e == scored_docs'[p]
                      d == docs[e.i + 1]
                  IN  /\ e.doc.content = d.content
                      /\ e.doc.metadata = d.metadata
                      /\ e.score_value = scores'[e.i + 1]
                      /\ e.doc.score = (IF request.return_scores THEN e.score_value ELSE "None")
            /\ \A p \in DOMAIN response'.reranked_documents :
                  response'.reranked_documents[p] = scored_docs'[p].doc
      ]_vars

\* a long document came back whole, next to one that differs from it only
\* beyond the 2000th character
C5_Witness ==
    /\ response.kind = "rerank_ok"
    /\ \E p, q \in DOMAIN response.reranked_documents :
          /\ response.reranked_documents[p].content = TextLongB
          /\ response.reranked_documents[q].content = TextLongC
          /\ StrLen(response.reranked_documents[p].content) > MAX_CONTENT_CHARS


\* an ingestion has just been answered
Ingested == nIngest' = nIngest + 1

\* C6: ingesting again a document (same filename, same content) that an
\* earlier ingestion has indexed leaves the index with the number of records
\* it had before.
C6_IdempotentIngestion ==
    [][(Ingested /\ ingest'.file \in ingested /\ ingest'.response.kind = "success")
          => Cardinality(index') = Cardinality(index)]_vars

\* C7: an ingestion of a document with chunks that gets no embeddings reports
\* a ModelUnavailable failure and leaves the index as it was.
C7_IngestAbortsWithoutModel ==
    [][(Ingested /\ ingest'.chunks # <<>> /\ ingest'.embeddings = <<>>)
          => /\ ingest'.response.kind = "http_error"
             /\ ingest'.response.detail = "ModelUnavailable"
             /\ index' = index]_vars

Ceil(a, b) == IF a <= 0 THEN -((-a) \div b) ELSE (a + b - 1) \div b

Max(a, b) == IF a >= b THEN a ELSE b

\* the chunks of the answered ingestion that come from page p (0-based)
ChunksOfPage(p) == SelectSeq(ingest.chunks, LAMBDA c : c.page = p)

\* every chunk has at most chunk_size tokens, and consecutive chunks of a
\* page share exactly chunk_overlap tokens
ChunksBounded(cs) ==
    /\ \A k \in DOMAIN cs : cs[k].hi - cs[k].lo <= chunk_size
    /\ \A k \in 1..(Len(cs) - 1) : cs[k].hi - cs[k + 1].lo = chunk_overlap

\* an ingestion of a readable file has been answered
ChunkedFile == ingest # NoCall /\ ingest.file.readable

NeededModel ==
    CASE request.kind \in {"rerank", "score"} -> IF processor = "None" THEN "None" ELSE model
      [] request.kind = "ml_rerank" -> _reranker
      [] request.kind \in {"embed_documents", "embed_query"} -> _embedding_model
      [] OTHER -> "not needed"

\* C9: a call that needs a model which is not loaded is answered with an
\* explicit error, never with a result.
C9_FailFastWhenNotReady ==
    (CallAnswered /\ NeededModel = "None") => response.kind = "http_error"

\* a primary load that did not give a model
NoPrimary(outcome) == outcome # "ok"

ActiveModel(active, primary, fallback) ==
    /\ primary = "ok" => active = "primary"
    /\ active = "fallback" <=> (NoPrimary(primary) /\ fallback = "ok")
    /\ active = "None" <=> (NoPrimary(primary) /\ fallback # "ok")

\* C10: after load_models returns, each model is the primary one if its
\* primary load succeeded, the fallback one iff its primary load failed and
\* its fallback load succeeded, and absent iff both failed.
C10_PrimaryThenFallback ==
    mlPc = "done" =>
        /\ ActiveModel(_reranker, loadLog.rp, loadLog.rf)
        /\ ActiveModel(_embedding_model, loadLog.ep, loadLog.ef)

\* load_models leaves MLServices in one of LoadOutcomes
LoadOutcomesExact ==
    mlPc = "done" =>
        [r |-> _reranker, e |-> _embedding_model, log |-> loadLog] \in LoadOutcomes


RECURSIVE TokenFramesOf(_)
\* one token frame per non-empty content, in the order of production
TokenFramesOf(contents) ==
    IF contents = <<>> THEN <<>>
    ELSE (IF Head(contents) # <<>> THEN <<TokenFrame(Head(contents))>> ELSE <<>>)
         \o TokenFramesOf(Tail(contents))

\* the generator has ended, normally or not
StreamOver == streamPc \in {"done", "aborted"}

\* the connected frame, then the token frames in order, then at most the marker
FramesInOrder ==
    streamPc # "idle" =>
        \/ frames = <<ConnectedFrame>> \o TokenFramesOf(produced)
        \/ frames = <<ConnectedFrame>> \o TokenFramesOf(produced) \o <<DoneFrame>>

\* C11: the frames of a streaming request are one connected frame, then one
\* token frame per non-empty token in the order the model produced them, and,
\* when the stream is over, exactly one done marker as the last frame.
C11_StreamFrames ==
    streamPc # "idle" =>
        /\ FramesInOrder
        /\ StreamOver =>
              frames = <<ConnectedFrame>> \o TokenFramesOf(produced) \o <<DoneFrame>>

RECURSIVE SplitEvents(_, _)
\* what a consumer of the event stream reads: the events are the pieces
\* between blank lines (two newlines in a row)
SplitEvents(bytes, cur) ==
    IF bytes = <<>> THEN <<>>
    ELSE IF Len(bytes) >= 2 /\ bytes[1] = NL /\ bytes[2] = NL
         THEN <<cur>> \o SplitEvents(SubSeq(bytes, 3, Len(bytes)), <<>>)
         ELSE SplitEvents(Tail(bytes), Append(cur, Head(bytes)))

Events == SplitEvents(Concat(frames), <<>>)

\* the events that read as the end of the stream
EndOfStreamEvents == {i \in DOMAIN Events : Events[i] = <<"data: ", "[DONE]">>}

\* C12: the consumer reads an end-of-stream event only where the generator
\* emitted the marker: none while the stream runs or after it broke off, one
\* (the last event) after the generator's done marker.
C12_MarkerDistinct ==
    EndOfStreamEvents = (IF streamPc = "done" THEN {Len(Events)} ELSE {})


\* the failures recorded as observations in the conversation trace
FailureObservations ==
    {i \in DOMAIN messages : messages[i].content = "action failed"}

\* C13: the agent entrypoint answers a query with an error only after failed
\* actions have been recorded in the trace and the loop has gone on; a single
\* failed action does not fail the query.
C13_FailureRecordedLoopContinues ==
    (agentPc = "returned" /\ agentResult.kind = "http_error")
        => FailureObservations # {}


\* the relevance the reranker gives a stored text for the query
RerankScore(text) ==
    CASE text = "t1" -> 1
      [] text = "t2" -> 3
      [] text = "t3" -> 2
      [] text = "t4" -> 3
      [] OTHER -> 1

\* a rag query has been answered with results
QueryAnswered == request.kind = "rag_query" /\ response.kind = "success"

\* C14: with reranking enabled the response is in the order of the rerank
\* scores, highest first; with reranking disabled it is the candidates in
\* vector-similarity order; it never has more than top_k items.
C14_QueryHonoursParameters ==
    QueryAnswered =>
        LET data == response.data
        IN  /\ Len(data) <= RAG_QUERY_K
            /\ request.enableReranking =>
                  \A i, j \in DOMAIN data :
                      i < j => RerankScore(data[i].content) >= RerankScore(data[j].content)
            /\ ~request.enableReranking =>
                  /\ Len(data) = Len(scored_docs)
                  /\ \A i \in DOMAIN data : data[i].content = scored_docs[i].doc


\* C15: a service that started has a chunk overlap strictly below its maximum
\* chunk size, and every ingestion it serves is answered (chunking ends).
C15_OverlapBelowChunkSize ==
    ragPc = "ready" =>
        /\ chunk_overlap < chunk_size
        /\ (ingest # NoCall => ingest.response # NeverReturns)


\* C16: for every integer top_k, zero and negative ones included, an accepted
\* /rerank request gets at most max(top_k, 0) documents back, and
\* returned_count = min(max(top_k, 0), original_count).
C16_TopKNeverNegative ==
    response.kind = "rerank_ok" =>
        /\ Len(response.reranked_documents) <= Max(request.top_k, 0)
        /\ response.returned_count = Min(Max(request.top_k, 0), response.original_count)


\* a /rerank or /score request has been answered with 503
Rejected503 ==
    /\ request.kind \in {"rerank", "score"}
    /\ response.kind = "http_error"
    /\ response.status_code = 503

\* C17: in the reranker service, in every state, model is set only if
\* processor is set; when /health reports healthy with model_loaded, /rerank
\* and /score are not rejected with 503, and when it reports initializing they
\* are.
C17_HealthAgreesWithRerank ==
    /\ model # "None" => processor # "None"
    /\ (health_check.status = "healthy" /\ health_check.model_loaded)
          => (~ModelNotLoaded /\ ~Rejected503)
    /\ health_check.status = "initializing" => ModelNotLoaded
    /\ response.kind = "health" =>
          /\ response.status = health_check.status
          /\ response.model_loaded = health_check.model_loaded

\* a /score request was answered with scores by a service that reports healthy
C17_Witness ==
    /\ svcPc = "serving"
    /\ health_check.status = "healthy"
    /\ request.kind = "score"
    /\ response.kind \in {"scores", "probabilities"}

====
